---- MODULE Spec2Model ----
(***************************************************************************)
(* Model of the piece-matching path of puzzle_solver:                      *)
(*   api/routes.py            analyze_piece                                *)
(*   services/matching_service  MatchingService                            *)
(*   models/feature_extractor   FeatureExtractor.extract_puzzle_features   *)
(*   services/puzzle_service    PuzzleService.save_puzzle, get_puzzle,     *)
(*                               list_puzzles, delete_puzzle,              *)
(*                               load_puzzle_features                      *)
(*   services/image_service     ImageService.detect_orientation            *)
(*                                                                         *)
(* Numbers.  Similarities are fixed-point thousandths (1000 = 1.0).  A     *)
(* fused confidence is kept in thousandths of a percent (40000 = 40 %),    *)
(* a reported confidence in tenths of a percent (800 = 80.0 %), which is   *)
(* what round(confidence, 1) can return.                                   *)
(*                                                                         *)
(* Descriptors.  A histogram is a short tuple of bin counts, Hu moments a  *)
(* tuple of integers and an embedding a 2-vector of integer length 5, so   *)
(* that correlation, Euclidean distance and cosine are computed exactly    *)
(* as the library calls compute them.                                      *)
(*                                                                         *)
(* Specifications.                                                         *)
(*   Spec            one request at a time against a stored puzzle         *)
(*   SpecFusion      the fusion of three stage scores                      *)
(*   SpecGrid        save_puzzle of images of many sizes (region grid)     *)
(*   SpecDegraded    find_matches on descriptors with zero sub-vectors     *)
(*   SpecConcurrent  two request threads interleaved                       *)
(*   SpecLocation    find_matches on saved images of many sizes            *)
(*   SpecRaise       analyze_piece with exceptions and its except handler  *)
(*   SpecOrientation ImageService.detect_orientation                       *)
(*   SpecRounding    confidences next to the 40 and 80 gates               *)
(*   SpecSave        save_puzzle statement by statement, with failures     *)
(*   SpecDelete      analyze_piece interleaved with delete_puzzle          *)
(*   SpecFault       find_matches with exceptions in its helpers           *)
(***************************************************************************)
EXTENDS Integers, Sequences, FiniteSets, TLC

\* ------------------------------------------------------------------ bounds
\* Largest number of grid columns (hence regions) of a stored puzzle.
MaxRegions == 2
\* Largest top_k a direct caller of find_matches passes.
MaxTopK == 6

\* --------------------------------------------------------------- constants
window_size == 100
overlap == 50
step == window_size - overlap
DefaultTopK == 5
ColorThreshold == 300
AcceptThreshold == 40000
AlternativesThreshold == 800
Rotations == <<0, 90, 180, 270>>
RotationSet == {0, 90, 180, 270}

None == [kind |-> "None"]

\* ------------------------------------------------------------- arithmetic
\* Integer square root (floor).
ISqrt(n) == CHOOSE r \in 0..(n + 1) : r * r <= n /\ (r + 1) * (r + 1) > n

RECURSIVE SumSeq(_)
SumSeq(s) == IF s = <<>> THEN 0 ELSE Head(s) + SumSeq(Tail(s))

Dot(u, v) == SumSeq([i \in 1..Len(u) |-> u[i] * v[i]])

\* max(0.0, min(1.0, similarity)) on thousandths.
Clamp01(v) == IF v < 0 THEN 0 ELSE IF v > 1000 THEN 1000 ELSE v

\* cv2.compareHist(h1, h2, HISTCMP_CORREL): Pearson correlation of the bin
\* values, 1 when either histogram has no variance.  Result in thousandths.
CompareHistCorrel(h1, h2) ==
    LET n == Len(h1)
        num == n * Dot(h1, h2) - SumSeq(h1) * SumSeq(h2)
        denom2 == (n * Dot(h1, h1) - SumSeq(h1) * SumSeq(h1))
                  * (n * Dot(h2, h2) - SumSeq(h2) * SumSeq(h2))
    IN  IF denom2 = 0 THEN 1000 ELSE (1000 * num) \div ISqrt(denom2)

\* np.exp(-d) for an integer distance d, in thousandths.
ExpNeg(d) == IF d = 0 THEN 1000
             ELSE IF d = 1 THEN 368
             ELSE IF d = 2 THEN 135
             ELSE IF d = 3 THEN 50
             ELSE IF d = 4 THEN 18
             ELSE IF d = 5 THEN 7
             ELSE IF d = 6 THEN 2
             ELSE 0

\* np.linalg.norm(u - v)
NormDiff(u, v) == ISqrt(SumSeq([i \in 1..Len(u) |-> (u[i] - v[i]) * (u[i] - v[i])]))

\* round(x, 1) of a value given in thousandths of a percent: the nearest
\* tenth, a tie going to the even tenth.
Round1(c) ==
    LET q == c \div 100
        r == c % 100
    IN  IF r < 50 THEN q
        ELSE IF r > 50 THEN q + 1
        ELSE IF q % 2 = 0 THEN q ELSE q + 1

\* ------------------------------------------------------ similarity stages
\* The three comparisons on well-formed descriptors; their except branches
\* (a constant 0.0, 0.5, 0.0) need an ill-formed descriptor.
compare_color_histograms(hist1, hist2) ==
    LET correlation == CompareHistCorrel(hist1, hist2)
        similarity == (correlation + 1000) \div 2
    IN  Clamp01(similarity)

\* The edge part of _compare_shape_features: the correlation of the two edge
\* histograms mapped to [0, 1], or 0.5 when shape.get('edge_hist') is None
\* on either side.  An absent sub-vector (None) is written <<>>.
edge_similarity(shape1, shape2) ==
    LET edge_hist1 == shape1.edge_hist
        edge_hist2 == shape2.edge_hist
    IN  IF edge_hist1 # <<>> /\ edge_hist2 # <<>>
        THEN (CompareHistCorrel(edge_hist1, edge_hist2) + 1000) \div 2
        ELSE 500

\* The Hu part: exp(-distance) of the two moment vectors, or 0.5 when
\* shape.get('hu_moments') is None on either side.
hu_similarity(shape1, shape2) ==
    LET hu1 == shape1.hu_moments
        hu2 == shape2.hu_moments
    IN  IF hu1 # <<>> /\ hu2 # <<>>
        THEN ExpNeg(NormDiff(hu1, hu2))
        ELSE 500

compare_shape_features(shape1, shape2) ==
    LET similarity == (edge_similarity(shape1, shape2)
                       + hu_similarity(shape1, shape2)) \div 2
    IN  Clamp01(similarity)

\* The cosine of two vectors; for a vector of norm 0 the quotient is NaN,
\* which max(0.0, min(1.0, NaN)) turns into 1.0.
compare_deep_features(features1, features2) ==
    IF Len(features1) = 0 \/ Len(features2) = 0 THEN 0
    ELSE LET n1 == ISqrt(Dot(features1, features1))
             n2 == ISqrt(Dot(features2, features2))
         IN  IF n1 = 0 \/ n2 = 0 THEN 1000
             ELSE Clamp01((1000 * Dot(features1, features2)) \div (n1 * n2))

\* Variant: the weight 0.50 written for all three scores.
WeightedConfidence_half(color_score, shape_score, feature_score) ==
    50 * color_score + 50 * shape_score + 50 * feature_score

\* 0.25 * color * 100 + 0.25 * shape * 100 + 0.50 * feature * 100,
\* in thousandths of a percent.
WeightedConfidence(color_score, shape_score, feature_score) ==
    25 * color_score + 25 * shape_score + 50 * feature_score

\* ------------------------------------------------------------ descriptors
\* Sample descriptors the extractor can return for an image area.
HistA == <<1, 0, 0>>
HistB == <<0, 1, 0>>
HistC == <<1, 1, 0>>

Desc(c, e, h, d) ==
    [color_hist |-> c, shape |-> [edge_hist |-> e, hu_moments |-> h],
     deep_features |-> d]

D1 == Desc(HistA, HistA, <<1>>, <<5, 0>>)
D2 == Desc(HistC, HistA, <<1>>, <<4, 3>>)
D3 == Desc(HistC, HistB, <<3>>, <<0, 5>>)
D4 == Desc(HistB, HistA, <<1>>, <<4, 3>>)

Descriptors == {D1, D2, D3, D4}

\* Region descriptors whose fused confidence with D1 lies next to a gate:
\* 79.975, 80.000, 80.025, 39.975 and 40.025.
R1 == Desc(<<4, 0, 3>>, <<4, 0, 3>>, <<3>>, <<12, 5>>)
R2 == Desc(HistA, HistA, <<1>>, <<3, 4>>)
R3 == Desc(<<2, 0, 5>>, HistA, <<1>>, <<15, 8>>)
R4 == Desc(<<1, 0, 7>>, <<0, 3, 6>>, <<3>>, <<3, 4>>)
R5 == Desc(<<1, 0, 4>>, HistA, <<2>>, <<7, 24>>)

RoundingDescriptors == {R1, R2, R3, R4, R5}

\* A piece image: the descriptor the extractor returns for the piece turned
\* clockwise by each rotation.
PieceDescriptors == {D1, D2}
PieceImages == [RotationSet -> PieceDescriptors]

\* np.zeros(n)
Zeros(n) == [i \in 1..n |-> 0]

Parts == {"color", "shape", "deep"}

\* Variant: a failed sub-extraction leaves its sub-vector out (None).
extract_region_features_none(area, failed) ==
    [color_hist |-> IF "color" \in failed THEN <<>> ELSE area.color_hist,
     shape |-> IF "shape" \in failed
               THEN [edge_hist |-> <<>>, hu_moments |-> <<>>]
               ELSE area.shape,
     deep_features |-> IF "deep" \in failed THEN <<>>
                       ELSE area.deep_features]

\* _extract_region_features of an image area whose clean descriptor is
\* area, when the sub-extractions named in failed raise: the except branch
\* of each returns zeros of the length of its vector.
extract_region_features(area, failed) ==
    [color_hist |-> IF "color" \in failed
                    THEN Zeros(Len(area.color_hist)) ELSE area.color_hist,
     shape |-> IF "shape" \in failed
               THEN [edge_hist |-> Zeros(Len(area.shape.edge_hist)),
                     hu_moments |-> Zeros(Len(area.shape.hu_moments))]
               ELSE area.shape,
     deep_features |-> IF "deep" \in failed
                       THEN Zeros(Len(area.deep_features))
                       ELSE area.deep_features]

\* Piece images one rotation of which is extracted with failures.
DegradedPieceImages ==
    {[r \in RotationSet |->
         IF r = t THEN extract_region_features(D1, failed) ELSE D1] :
       t \in RotationSet, failed \in (SUBSET Parts) \ {{}}}

\* Region descriptors of a puzzle saved with failing sub-extractions.
DegradedRegionDescriptors ==
    {D2, D3} \cup {extract_region_features(D2, {part}) : part \in Parts}

\* --------------------------------------------------------- region grid
\* Variant: the windows start at every step up to the image border,
\* range(0, limit, step).
GridRange_border(limit) ==
    IF limit <= 0 THEN <<>>
    ELSE [i \in 1..((limit - 1) \div step + 1) |-> (i - 1) * step]

\* range(0, limit - window_size + 1, step)
GridRange(limit) ==
    IF limit < window_size THEN <<>>
    ELSE [i \in 1..((limit - window_size) \div step + 1) |-> (i - 1) * step]

\* Variant: the loops nested the other way round, x outer and y inner.
RECURSIVE WindowPositions_xouter(_, _)
WindowPositions_xouter(ys, xs) ==
    IF xs = <<>> THEN <<>>
    ELSE [j \in 1..Len(ys) |-> [x |-> Head(xs), y |-> ys[j]]]
         \o WindowPositions_xouter(ys, Tail(xs))

\* "for y in range(...): for x in range(...)": the window origins in the
\* order the loops visit them.
RECURSIVE WindowPositions(_, _)
WindowPositions(ys, xs) ==
    IF ys = <<>> THEN <<>>
    ELSE [j \in 1..Len(xs) |-> [x |-> xs[j], y |-> Head(ys)]]
         \o WindowPositions(Tail(ys), xs)

\* FeatureExtractor.extract_puzzle_features: the sliding window; content[i]
\* is the descriptor extracted for the i-th window visited.
extract_puzzle_features(width, height, content) ==
    LET positions == WindowPositions(GridRange(height), GridRange(width))
        regions == [i \in 1..Len(positions) |->
                      [x |-> positions[i].x,
                       y |-> positions[i].y,
                       width |-> window_size,
                       height |-> window_size,
                       color_hist |-> content[i].color_hist,
                       shape |-> content[i].shape,
                       deep_features |-> content[i].deep_features]]
        rows == (height - window_size) \div step + 1
        cols == (width - window_size) \div step + 1
    IN  [regions |-> regions, grid_size |-> <<rows, cols>>]

\* Number of windows of a width x height image.
RegionCount(width, height) == Len(GridRange(height)) * Len(GridRange(width))

\* ------------------------------------------------- location description
\* str.capitalize() of the position words.
Capitalize(word) ==
    CASE word = "left" -> "Left"
      [] word = "center" -> "Center"
      [] word = "right" -> "Right"
      [] word = "upper" -> "Upper"
      [] word = "middle" -> "Middle"
      [] word = "lower" -> "Lower"

\* Variant: the first threshold of the horizontal classification is 34 %.
horizontal_position_34(x, width) ==
    IF x * 100 < width * 34 THEN "left"
    ELSE IF x * 100 < width * 67 THEN "center"
    ELSE "right"

\* "if x < width * 0.33: ... elif x < width * 0.67: ... else: ..."
horizontal_position(x, width) ==
    IF x * 100 < width * 33 THEN "left"
    ELSE IF x * 100 < width * 67 THEN "center"
    ELSE "right"

\* "if y < height * 0.33: ... elif y < height * 0.67: ... else: ..."
vertical_position(y, height) ==
    IF y * 100 < height * 33 THEN "upper"
    ELSE IF y * 100 < height * 67 THEN "middle"
    ELSE "lower"

\* "Combine positions"
combine_positions(h_pos, v_pos) ==
    IF v_pos = "middle" /\ h_pos = "center" THEN "Center area"
    ELSE IF v_pos = "middle" THEN Capitalize(h_pos) \o " side"
    ELSE IF h_pos = "center" THEN Capitalize(v_pos) \o " area"
    ELSE Capitalize(v_pos) \o "-" \o h_pos \o " quadrant"

\* Variant: the clauses of the two quarter turns are exchanged.
rotation_text_swapped(rotation_deg) ==
    IF rotation_deg = 0 THEN ""
    ELSE IF rotation_deg = 90 THEN ", rotated 90° counter-clockwise"
    ELSE IF rotation_deg = 180 THEN ", rotated 180°"
    ELSE IF rotation_deg = 270 THEN ", rotated 90° clockwise"
    ELSE ", rotated " \o ToString(rotation_deg) \o "°"

\* "Add rotation if needed"
rotation_text(rotation_deg) ==
    IF rotation_deg = 0 THEN ""
    ELSE IF rotation_deg = 90 THEN ", rotated 90° clockwise"
    ELSE IF rotation_deg = 180 THEN ", rotated 180°"
    ELSE IF rotation_deg = 270 THEN ", rotated 90° counter-clockwise"
    ELSE ", rotated " \o ToString(rotation_deg) \o "°"

\* Variant: the position is taken at the centre of the region.
generate_location_description_centre(region, puzzle_metadata, rotation_deg) ==
    LET width == puzzle_metadata.dimensions.width
        height == puzzle_metadata.dimensions.height
        x == region.x + region.width \div 2
        y == region.y + region.height \div 2
    IN  combine_positions(horizontal_position(x, width),
                          vertical_position(y, height))
            \o rotation_text(rotation_deg)

generate_location_description(region, puzzle_metadata, rotation_deg) ==
    LET width == puzzle_metadata.dimensions.width
        height == puzzle_metadata.dimensions.height
        x == region.x
        y == region.y
        h_pos == horizontal_position(x, width)
        v_pos == vertical_position(y, height)
        position == combine_positions(h_pos, v_pos)
    IN  position \o rotation_text(rotation_deg)

\* ------------------------------------------------------------ the cascade
\* Variant: the prefilter threshold written as 0.03.
ColorRejected_low(color_score) == color_score < 30

\* Stage 1 gate: "if color_score < 0.3: continue".
ColorRejected(color_score) == color_score < ColorThreshold

\* Variant: the acceptance gate reads the confidence rounded to a tenth.
Accepted_rounded(confidence) == Round1(confidence) * 100 >= AcceptThreshold

\* Variant: the acceptance threshold written as 4.
Accepted_low(confidence) == confidence >= 4000

\* "if confidence >= 40".
Accepted(confidence) == confidence >= AcceptThreshold

\* The fused confidence of one (piece descriptor, region) pair.
PairConfidence(piece_features, region) ==
    WeightedConfidence(
        compare_color_histograms(piece_features.color_hist,
                                 region.color_hist),
        compare_shape_features(piece_features.shape, region.shape),
        compare_deep_features(piece_features.deep_features,
                              region.deep_features))

\* The match dict built for an accepted pair.
MakeMatch(confidence, region, puzzle_metadata, rotation_deg) ==
    [confidence |-> Round1(confidence),
     location |-> [x |-> region.x, y |-> region.y,
                   width |-> region.width, height |-> region.height],
     rotation_needed |-> rotation_deg,
     description |-> generate_location_description(region, puzzle_metadata,
                                                   rotation_deg)]

\* Variant: the three comparisons are made first and the color gate is
\* looked at afterwards.
CascadePair_eager(piece_features, region) ==
    LET color_score == compare_color_histograms(piece_features.color_hist,
                                                region.color_hist)
        confidence == PairConfidence(piece_features, region)
    IN  [stages |-> <<"color", "shape", "deep">>,
         confidence |-> confidence,
         emitted |-> ~ColorRejected(color_score) /\ Accepted(confidence)]

\* The body of "for region in puzzle_regions" for one pair: the comparisons
\* it executes, in order, and whether it appends a match.  "continue" after
\* the color stage leaves the other two comparisons unexecuted.
CascadePair(piece_features, region) ==
    LET color_score == compare_color_histograms(piece_features.color_hist,
                                                region.color_hist)
    IN  IF ColorRejected(color_score)
        THEN [stages |-> <<"color">>, confidence |-> 0, emitted |-> FALSE]
        ELSE LET confidence == PairConfidence(piece_features, region)
             IN  [stages |-> <<"color", "shape", "deep">>,
                  confidence |-> confidence,
                  emitted |-> Accepted(confidence)]

\* One iteration of "for region in puzzle_regions": the matches list after
\* the region has been handled.
MatchRegion(matches, piece_features, region, puzzle_metadata, rotation_deg) ==
    LET pair == CascadePair(piece_features, region)
    IN  IF pair.emitted
        THEN Append(matches, MakeMatch(pair.confidence, region,
                                       puzzle_metadata, rotation_deg))
        ELSE matches

RECURSIVE MatchRegions(_, _, _, _, _)
MatchRegions(matches, piece_features, regions, puzzle_metadata, rotation_deg) ==
    IF regions = <<>> THEN matches
    ELSE MatchRegions(
            MatchRegion(matches, piece_features, Head(regions),
                        puzzle_metadata, rotation_deg),
            piece_features, Tail(regions), puzzle_metadata, rotation_deg)

\* The comparisons one rotation executes, in execution order: region by
\* region (index i onwards), each with the stages of its pair.
RECURSIVE RotationStages(_, _, _, _)
RotationStages(piece_features, regions, rotation_deg, i) ==
    IF i > Len(regions) THEN <<>>
    ELSE LET stages == CascadePair(piece_features, regions[i]).stages
         IN  [k \in 1..Len(stages) |->
                 [rotation |-> rotation_deg, region |-> i, stage |-> stages[k]]]
             \o RotationStages(piece_features, regions, rotation_deg, i + 1)

\* Variant: a rotation contributes its first accepted region only.
match_piece_to_puzzle_first(piece_features, features, metadata, rotation_deg) ==
    LET found == MatchRegions(<<>>, piece_features, features.regions,
                              metadata, rotation_deg)
    IN  IF found = <<>> THEN <<>> ELSE <<Head(found)>>

\* _match_piece_to_puzzle: the matches of one rotation against all regions.
match_piece_to_puzzle(piece_features, features, metadata, rotation_deg) ==
    MatchRegions(<<>>, piece_features, features.regions, metadata,
                 rotation_deg)

\* ---------------------------------------------------------------- ranking
\* Variant: an element goes before the elements equal to it (ties reversed).
RECURSIVE InsertSorted_unstable(_, _)
InsertSorted_unstable(sorted, m) ==
    IF sorted = <<>> THEN <<m>>
    ELSE IF Head(sorted).confidence > m.confidence
         THEN <<Head(sorted)>> \o InsertSorted_unstable(Tail(sorted), m)
         ELSE <<m>> \o sorted

\* Where list.sort(key=confidence, reverse=True) puts an element among
\* already sorted ones: after every element that is not smaller (stable).
RECURSIVE InsertSorted(_, _)
InsertSorted(sorted, m) ==
    IF sorted = <<>> THEN <<m>>
    ELSE IF Head(sorted).confidence >= m.confidence
         THEN <<Head(sorted)>> \o InsertSorted(Tail(sorted), m)
         ELSE <<m>> \o sorted

\* Variant: reverse=True forgotten, the list is sorted ascending.
RECURSIVE InsertAscending(_, _)
InsertAscending(sorted, m) ==
    IF sorted = <<>> THEN <<m>>
    ELSE IF Head(sorted).confidence <= m.confidence
         THEN <<Head(sorted)>> \o InsertAscending(Tail(sorted), m)
         ELSE <<m>> \o sorted

RECURSIVE SortByConfidence_asc(_)
SortByConfidence_asc(ms) ==
    IF ms = <<>> THEN <<>>
    ELSE InsertAscending(SortByConfidence_asc(SubSeq(ms, 1, Len(ms) - 1)),
                         ms[Len(ms)])

\* all_matches.sort(key=lambda x: x['confidence'], reverse=True)
RECURSIVE SortByConfidence(_)
SortByConfidence(ms) ==
    IF ms = <<>> THEN <<>>
    ELSE InsertSorted(SortByConfidence(SubSeq(ms, 1, Len(ms) - 1)),
                      ms[Len(ms)])

\* Variant: one element too many is kept.
Slice_extra(ms, k) == SubSeq(ms, 1, IF k + 1 < Len(ms) THEN k + 1 ELSE Len(ms))

\* all_matches[:top_k] for top_k >= 0
Slice(ms, k) == SubSeq(ms, 1, IF k < Len(ms) THEN k ELSE Len(ms))

\* ------------------------------------------------------------------ store
PuzzleIds == {1, 2}

\* A file that was opened for writing and whose content is not complete.
Partial == [kind |-> "Partial"]

\* PuzzleService.save_puzzle, its result on disk: the puzzle directory with
\* original.jpg, thumbnail.jpg, features.pkl and metadata.json of an image
\* of the given size and content.
StoredPuzzle(width, height, content) ==
    LET features == extract_puzzle_features(width, height, content)
    IN  [dir |-> TRUE, original |-> TRUE, thumbnail |-> TRUE,
         metadata |-> [dimensions |-> [width |-> width, height |-> height],
                       region_count |-> Len(features.regions)],
         features |-> features]

\* No directory of that id.
NoPuzzle ==
    [dir |-> FALSE, original |-> FALSE, thumbnail |-> FALSE,
     metadata |-> None, features |-> None]

\* Image sizes of the stored puzzle: one row of 1..MaxRegions windows.
PuzzleWidths == {window_size + step * (c - 1) : c \in 1..MaxRegions}
PuzzleHeights == {window_size}

\* PuzzleService.get_puzzle: None without metadata.json, and None when
\* json.load raises on an incomplete file.
get_puzzle(st, puzzle_id) ==
    IF st[puzzle_id].metadata = Partial THEN None
    ELSE st[puzzle_id].metadata

\* PuzzleService.list_puzzles: the puzzles whose metadata.json exists and
\* can be read (as the set of their ids).
list_puzzles(st) ==
    {p \in PuzzleIds :
        st[p].dir /\ st[p].metadata # None /\ st[p].metadata # Partial}

\* PuzzleService.load_puzzle_features: None without features.pkl, and None
\* when pickle.load raises on an incomplete file.
load_puzzle_features(st, puzzle_id) ==
    IF st[puzzle_id].features = Partial THEN None
    ELSE st[puzzle_id].features

\* --------------------------------------------------------------- responses
WarningNull == "null"
WarningNoMatch == "No confident match found. Please try a different piece or retake the photo."
WarningLowConfidence == "Low confidence match. This may not be accurate."

ErrorResponse(status, error) ==
    [status |-> status, success |-> FALSE, error |-> error,
     best_match |-> None, alternatives |-> <<>>, warning |-> WarningNull]

\* Variant: the comprehension without its condition.
FilterAlternatives_all(ms) == ms

\* [m for m in matches[1:] if m['confidence'] >= 80]
RECURSIVE FilterAlternatives(_)
FilterAlternatives(ms) ==
    IF ms = <<>> THEN <<>>
    ELSE IF Head(ms).confidence >= AlternativesThreshold
         THEN <<Head(ms)>> \o FilterAlternatives(Tail(ms))
         ELSE FilterAlternatives(Tail(ms))

\* "if best_match['confidence'] >= 80"
BestIsConfident(best_match) == best_match.confidence >= AlternativesThreshold

\* Variant: the warning is given below 40 instead of below 80.
NeedsWarning_low(best_match) == best_match.confidence < 400

\* "if best_match['confidence'] < 80"
NeedsWarning(best_match) == best_match.confidence < AlternativesThreshold

\* Variant: the alternatives are the remaining matches, never gated.
PrepareResponse_ungated(matches) ==
    IF Len(matches) = 0
    THEN [status |-> 200, success |-> TRUE, error |-> "",
          best_match |-> None, alternatives |-> <<>>,
          warning |-> WarningNoMatch]
    ELSE [status |-> 200, success |-> TRUE, error |-> "",
          best_match |-> matches[1], alternatives |-> Tail(matches),
          warning |-> IF NeedsWarning(matches[1])
                      THEN WarningLowConfidence ELSE WarningNull]

\* analyze_piece, "Prepare response": the JSON body built from the list
\* that find_matches returned.
PrepareResponse(matches) ==
    IF Len(matches) = 0
    THEN [status |-> 200, success |-> TRUE, error |-> "",
          best_match |-> None, alternatives |-> <<>>,
          warning |-> WarningNoMatch]
    ELSE LET best_match == matches[1]
             alternatives == IF BestIsConfident(best_match)
                             THEN FilterAlternatives(Tail(matches))
                             ELSE <<>>
         IN  [status |-> 200, success |-> TRUE, error |-> "",
              best_match |-> best_match, alternatives |-> alternatives,
              warning |-> IF NeedsWarning(best_match)
                          THEN WarningLowConfidence ELSE WarningNull]

\* ------------------------------------------------------------------ state
VARIABLES
    store,                \* puzzle id -> metadata and features on disk
    pc,                   \* position of the request being served
    caller,               \* "route" (analyze_piece) or "direct" (find_matches)
    request,              \* the piece image and puzzle id of the request
    piece_bytes,          \* the local piece_bytes: "unset" (None), "open" (a
                          \* buffer), "deleted" (buffer closed, name deleted)
    top_k,                \* find_matches parameter, as read at the slice
    puzzle_features,      \* find_matches local
    puzzle_metadata,      \* find_matches local
    piece_features_list,  \* find_matches local: <<rotation_deg, features>>
    done_rotations,       \* entries of piece_features_list already matched
    all_matches,          \* find_matches local
    matches,              \* the list find_matches returned
    response,             \* the response of analyze_piece
    stage_log,            \* the comparisons executed by this find_matches
    other,                \* the frame of a second request thread, parked
    cascade,              \* the scores of one pair and their fusion
    writer,               \* the frame of a save_puzzle or delete_puzzle call
    orientation           \* the angle and the result of detect_orientation

vars == <<store, pc, caller, request, piece_bytes, top_k, puzzle_features,
          puzzle_metadata, piece_features_list, done_rotations, all_matches,
          matches, response, stage_log, other, cascade, writer, orientation>>

\* The variables the request handlers never touch.
sideVars == <<writer, orientation>>

\* No save_puzzle or delete_puzzle call is running.
NoWriter == [op |-> "none"]

NoRequest == [piece |-> None, puzzle_id |-> 0]

\* The locals of a request that has not begun.
IdleFrame ==
    [pc |-> "idle", caller |-> "none", request |-> NoRequest,
     piece_bytes |-> "unset", top_k |-> DefaultTopK,
     puzzle_features |-> None, puzzle_metadata |-> None,
     piece_features_list |-> <<>>, done_rotations |-> 0,
     all_matches |-> <<>>, matches |-> <<>>, response |-> None,
     stage_log |-> <<>>]

\* No request is being served.
Idle ==
    /\ pc = "idle"
    /\ caller = "none"
    /\ request = NoRequest
    /\ piece_bytes = "unset"
    /\ top_k = DefaultTopK
    /\ puzzle_features = None
    /\ puzzle_metadata = None
    /\ piece_features_list = <<>>
    /\ done_rotations = 0
    /\ all_matches = <<>>
    /\ matches = <<>>
    /\ response = None
    /\ stage_log = <<>>

Init ==
    /\ \E w \in PuzzleWidths, h \in PuzzleHeights :
         \E content \in [1..RegionCount(w, h) -> Descriptors] :
            store = [p \in PuzzleIds |->
                        IF p = 1 THEN StoredPuzzle(w, h, content)
                        ELSE NoPuzzle]
    /\ Idle
    /\ other = IdleFrame
    /\ cascade = None
    /\ writer = NoWriter
    /\ orientation = None

findLocals == <<puzzle_features, puzzle_metadata, piece_features_list,
                done_rotations, all_matches, matches, stage_log>>

\* analyze_piece, for one of the given piece images, up to the creation of
\* the piece buffer: the upload must be valid, else 400, and the puzzle must
\* exist, else 404.
AnalyzeRequest(pieces) ==
    /\ pc = "idle"
    /\ \E piece \in pieces, puzzle_id \in PuzzleIds, is_valid \in BOOLEAN :
         /\ request' = [piece |-> piece, puzzle_id |-> puzzle_id]
         /\ IF ~is_valid
            THEN /\ response' = ErrorResponse(400, "Invalid piece upload")
                 /\ pc' = "done"
                 /\ piece_bytes' = piece_bytes
            ELSE IF get_puzzle(store, puzzle_id) = None
            THEN /\ response' = ErrorResponse(404, "Puzzle not found")
                 /\ pc' = "done"
                 /\ piece_bytes' = piece_bytes
            ELSE /\ response' = response
                 /\ pc' = "quality"
                 /\ piece_bytes' = "open"
    /\ caller' = "route"
    /\ top_k' = DefaultTopK
    /\ UNCHANGED <<store, other, cascade, sideVars, findLocals>>

AnalyzeBegin == AnalyzeRequest(PieceImages)

\* check_image_quality and the cleanup on a quality failure.
AnalyzeQuality ==
    /\ pc = "quality"
    /\ \E quality_ok \in BOOLEAN :
         IF ~quality_ok
         THEN /\ piece_bytes' = "deleted"
              /\ response' = ErrorResponse(400, "Piece image quality insufficient")
              /\ pc' = "done"
         ELSE /\ piece_bytes' = piece_bytes
              /\ response' = response
              /\ pc' = "load"
    /\ UNCHANGED <<store, other, cascade, sideVars, caller, request, top_k, findLocals>>

\* A caller other than the route invokes find_matches with one of the
\* given piece images; its top_k is drawn where find_matches reads it
\* (FindRank).
FindMatchesRequest(pieces) ==
    /\ pc = "idle"
    /\ \E piece \in pieces, puzzle_id \in PuzzleIds :
         request' = [piece |-> piece, puzzle_id |-> puzzle_id]
    /\ top_k' = DefaultTopK
    /\ caller' = "direct"
    /\ piece_bytes' = "open"
    /\ pc' = "load"
    /\ UNCHANGED <<store, other, cascade, sideVars, findLocals, response>>

FindMatchesCall == FindMatchesRequest(PieceImages)

\* Variant: loading takes the descriptor set out of the store.
FindLoad_consume ==
    /\ pc = "load"
    /\ LET features == load_puzzle_features(store, request.puzzle_id)
           metadata == get_puzzle(store, request.puzzle_id)
       IN  IF features = None
           THEN /\ matches' = <<>>
                /\ pc' = "returned"
                /\ UNCHANGED <<store, puzzle_features, puzzle_metadata>>
           ELSE IF metadata = None
           THEN /\ matches' = <<>>
                /\ pc' = "returned"
                /\ puzzle_features' = features
                /\ UNCHANGED <<store, puzzle_metadata>>
           ELSE /\ puzzle_features' = features
                /\ puzzle_metadata' = metadata
                /\ pc' = "extract"
                /\ store' = [store EXCEPT ![request.puzzle_id] = NoPuzzle]
                /\ UNCHANGED matches
    /\ UNCHANGED <<other, cascade, sideVars, caller, request, piece_bytes, top_k,
                   piece_features_list, done_rotations, all_matches, response,
                   stage_log>>

\* find_matches: load the features and the metadata; either missing makes
\* the call return [].
FindLoad ==
    /\ pc = "load"
    /\ LET features == load_puzzle_features(store, request.puzzle_id)
           metadata == get_puzzle(store, request.puzzle_id)
       IN  IF features = None
           THEN /\ matches' = <<>>
                /\ pc' = "returned"
                /\ UNCHANGED <<puzzle_features, puzzle_metadata>>
           ELSE IF metadata = None
           THEN /\ matches' = <<>>
                /\ pc' = "returned"
                /\ puzzle_features' = features
                /\ UNCHANGED puzzle_metadata
           ELSE /\ puzzle_features' = features
                /\ puzzle_metadata' = metadata
                /\ pc' = "extract"
                /\ UNCHANGED matches
    /\ UNCHANGED <<store, other, cascade, sideVars, caller, request, piece_bytes, top_k,
                   piece_features_list, done_rotations, all_matches, response,
                   stage_log>>

\* Variant: the descriptor of each rotation is tagged with the opposite turn.
extract_piece_features_opposite_tag(piece) ==
    [i \in 1..Len(Rotations) |->
        <<(360 - Rotations[i]) % 360, piece[Rotations[i]]>>]

\* _extract_piece_features_all_orientations: for each rotation_deg, the
\* descriptor of the piece turned by it, tagged with rotation_deg.
extract_piece_features_all_orientations(piece) ==
    [i \in 1..Len(Rotations) |-> <<Rotations[i], piece[Rotations[i]]>>]

FindExtract ==
    /\ pc = "extract"
    /\ piece_features_list' =
           extract_piece_features_all_orientations(request.piece)
    /\ done_rotations' = 0
    /\ all_matches' = <<>>
    /\ stage_log' = <<>>
    /\ pc' = "match"
    /\ UNCHANGED <<store, other, cascade, sideVars, caller, request, piece_bytes, top_k,
                   puzzle_features, puzzle_metadata, matches, response>>

\* One pass of "for rotation_deg, piece_features in piece_features_list".
FindMatchRotation ==
    /\ pc = "match"
    /\ done_rotations < Len(piece_features_list)
    /\ LET entry == piece_features_list[done_rotations + 1]
       IN  /\ all_matches' = all_matches \o
                  match_piece_to_puzzle(entry[2], puzzle_features,
                                        puzzle_metadata, entry[1])
           /\ stage_log' = stage_log \o
                  RotationStages(entry[2], puzzle_features.regions,
                                 entry[1], 1)
    /\ done_rotations' = done_rotations + 1
    /\ UNCHANGED <<store, other, cascade, sideVars, pc, caller, request, piece_bytes,
                   top_k, puzzle_features, puzzle_metadata,
                   piece_features_list, matches, response>>

\* After the loop: sort, keep the top K, return.
FindRank ==
    /\ pc = "match"
    /\ done_rotations = Len(piece_features_list)
    /\ \E k \in (IF caller = "route" THEN {DefaultTopK} ELSE 0..MaxTopK) :
         /\ top_k' = k
         /\ matches' = Slice(SortByConfidence(all_matches), k)
    /\ all_matches' = SortByConfidence(all_matches)
    /\ pc' = "returned"
    /\ UNCHANGED <<store, other, cascade, sideVars, caller, request, piece_bytes,
                   puzzle_features, puzzle_metadata, piece_features_list,
                   done_rotations, response, stage_log>>

\* analyze_piece after find_matches returned: cleanup and response.
AnalyzeRespond ==
    /\ pc = "returned"
    /\ caller = "route"
    /\ piece_bytes' = "deleted"
    /\ response' = PrepareResponse(matches)
    /\ pc' = "done"
    /\ UNCHANGED <<store, other, cascade, sideVars, caller, request, top_k, findLocals>>

\* The direct caller receives the list; find_matches leaves the buffer open.
DirectReturn ==
    /\ pc = "returned"
    /\ caller = "direct"
    /\ pc' = "done"
    /\ UNCHANGED <<store, other, cascade, sideVars, caller, request, piece_bytes,
                   top_k, findLocals, response>>

\* The request is over; its locals are discarded.
Finish ==
    /\ pc = "done"
    /\ pc' = "idle"
    /\ caller' = "none"
    /\ request' = NoRequest
    /\ piece_bytes' = "unset"
    /\ top_k' = DefaultTopK
    /\ puzzle_features' = None
    /\ puzzle_metadata' = None
    /\ piece_features_list' = <<>>
    /\ done_rotations' = 0
    /\ all_matches' = <<>>
    /\ matches' = <<>>
    /\ response' = None
    /\ stage_log' = <<>>
    /\ UNCHANGED <<store, other, cascade, sideVars>>

Next ==
    \/ AnalyzeBegin
    \/ AnalyzeQuality
    \/ FindMatchesCall
    \/ FindLoad
    \/ FindExtract
    \/ FindMatchRotation
    \/ FindRank
    \/ AnalyzeRespond
    \/ DirectReturn
    \/ Finish

Spec == Init /\ [][Next]_vars

\* ----------------------------------------------------- fusion of one pair
\* Resolution of the scores tried: 0, 1/ScoreSteps, ..., 1.
ScoreSteps == 4

\* Similarities a stage can return, in thousandths.
Scores == {(1000 * k) \div ScoreSteps : k \in 0..ScoreSteps}

requestVars == <<pc, caller, request, piece_bytes, top_k, findLocals, response>>

\* The three stage scores of one pair, before "confidence = ...".
InitFusion ==
    /\ store = [p \in PuzzleIds |-> NoPuzzle]
    /\ Idle
    /\ other = IdleFrame
    /\ cascade \in [color_score : Scores, shape_score : Scores,
                    feature_score : Scores, confidence : {0},
                    fused : {FALSE}]
    /\ writer = NoWriter
    /\ orientation = None

\* "confidence = color_score * 0.25 * 100 + ..." for the scores at hand.
FuseScores ==
    /\ cascade # None
    /\ ~cascade.fused
    /\ cascade' = [cascade EXCEPT
                      !.confidence = WeightedConfidence(cascade.color_score,
                                                        cascade.shape_score,
                                                        cascade.feature_score),
                      !.fused = TRUE]
    /\ UNCHANGED <<store, other, sideVars, requestVars>>

NextFusion == FuseScores

SpecFusion == InitFusion /\ [][NextFusion]_vars

\* ------------------------------------------------- saving a puzzle image
\* Image sides tried: 25, 50, ..., 25 * MaxGridSteps pixels.
MaxGridSteps == 14

GridSizes == {25 * k : k \in 1..MaxGridSteps}

InitGrid ==
    /\ store = [p \in PuzzleIds |-> NoPuzzle]
    /\ Idle
    /\ other = IdleFrame
    /\ cascade = None
    /\ writer = NoWriter
    /\ orientation = None

\* PuzzleService.save_puzzle of an image of any of the sizes: the region
\* descriptors of extract_puzzle_features and the metadata go to the store.
SavePuzzle ==
    /\ store[1] = NoPuzzle
    /\ \E width \in GridSizes, height \in GridSizes :
          store' = [store EXCEPT ![1] =
                       StoredPuzzle(width, height,
                                    [i \in 1..RegionCount(width, height) |-> D1])]
    /\ UNCHANGED <<other, cascade, sideVars, requestVars>>

NextGrid == SavePuzzle

SpecGrid == InitGrid /\ [][NextGrid]_vars

\* --------------------------------- descriptions of the regions of a save
\* A piece whose descriptor equals that of every region of the saved
\* puzzle, at every rotation: every pair is accepted and described.
LocationPieceImages == {[r \in RotationSet |-> D1]}

LocationCall == FindMatchesRequest(LocationPieceImages)

NextLocation ==
    \/ SavePuzzle
    \/ LocationCall
    \/ FindLoad
    \/ FindExtract
    \/ FindMatchRotation
    \/ FindRank
    \/ DirectReturn
    \/ Finish

SpecLocation == InitGrid /\ [][NextLocation]_vars

\* ------------------------------------------- exceptions in analyze_piece
\* A step of analyze_piece raises after the buffer was created: either
\* check_image_quality or piece_bytes.seek(0), with the buffer open, or a
\* statement that follows "del piece_bytes" (gc.collect, the response
\* preparation, jsonify) on the quality rejection or after find_matches.
AnalyzeRaise ==
    /\ caller = "route"
    /\ \/ /\ pc = "quality"
          /\ piece_bytes' = piece_bytes
       \/ /\ pc \in {"quality", "returned"}
          /\ piece_bytes' = "deleted"
    /\ pc' = "except"
    /\ UNCHANGED <<store, other, cascade, sideVars, caller, request, top_k,
                   findLocals, response>>

\* "except Exception as e": "if piece_bytes:" closes a bound buffer, the
\* three names are deleted and the 500 response is returned.  When the
\* name was already deleted, reading it raises UnboundLocalError inside the
\* handler and the application's 500 handler answers.
AnalyzeExcept ==
    /\ pc = "except"
    /\ IF piece_bytes = "deleted"
       THEN /\ response' = ErrorResponse(500, "Internal server error")
            /\ piece_bytes' = piece_bytes
       ELSE /\ response' = ErrorResponse(500, "Failed to analyze piece")
            /\ piece_bytes' = "deleted"
    /\ pc' = "done"
    /\ UNCHANGED <<store, other, cascade, sideVars, caller, request, top_k,
                   findLocals>>

NextRaise ==
    \/ AnalyzeBegin
    \/ AnalyzeQuality
    \/ FindLoad
    \/ FindExtract
    \/ FindMatchRotation
    \/ FindRank
    \/ AnalyzeRespond
    \/ AnalyzeRaise
    \/ AnalyzeExcept
    \/ Finish

SpecRaise == Init /\ [][NextRaise]_vars

\* ------------------------------------------- confidences next to a gate
\* A stored puzzle of three regions with descriptors next to the gates,
\* and the piece D1 at every rotation.
RoundingRegions == 3

InitRounding ==
    /\ \E content \in [1..RoundingRegions -> RoundingDescriptors] :
          store = [p \in PuzzleIds |->
                      IF p = 1
                      THEN StoredPuzzle(window_size + step * (RoundingRegions - 1),
                                        window_size, content)
                      ELSE NoPuzzle]
    /\ Idle
    /\ other = IdleFrame
    /\ cascade = None
    /\ writer = NoWriter
    /\ orientation = None

RoundingBegin == AnalyzeRequest(LocationPieceImages)

RoundingCall == FindMatchesRequest(LocationPieceImages)

NextRounding ==
    \/ RoundingBegin
    \/ AnalyzeQuality
    \/ RoundingCall
    \/ FindLoad
    \/ FindExtract
    \/ FindMatchRotation
    \/ FindRank
    \/ AnalyzeRespond
    \/ DirectReturn
    \/ Finish

SpecRounding == InitRounding /\ [][NextRounding]_vars

\* ------------------------------------------------- ImageService
\* Angles of cv2.minAreaRect tried, in half degrees: -MaxAngleSteps / 2
\* to MaxAngleSteps / 2 degrees.
MaxAngleSteps == 180

\* What the contour search of detect_orientation can come to: no contour,
\* an exception, or the angle of the rectangle of the largest contour.
ContourOutcomes ==
    {[kind |-> "no_contour", angle |-> 0], [kind |-> "error", angle |-> 0]}
        \cup [kind : {"angle"}, angle : -MaxAngleSteps..MaxAngleSteps]

\* ImageService.detect_orientation; angle in half degrees (22.5 is 45).
detect_orientation(outcome) ==
    IF outcome.kind = "no_contour" THEN 0
    ELSE IF outcome.kind = "error" THEN 0
    ELSE LET angle == outcome.angle
         IN  IF angle < -90 THEN 90
             ELSE IF angle > 90 THEN 270
             ELSE IF angle < -45 THEN 45
             ELSE IF angle > 45 THEN 315
             ELSE 0

InitOrientation ==
    /\ store = [p \in PuzzleIds |-> NoPuzzle]
    /\ Idle
    /\ other = IdleFrame
    /\ cascade = None
    /\ writer = NoWriter
    /\ orientation = None

\* One call of detect_orientation.
DetectOrientation ==
    /\ orientation = None
    /\ \E outcome \in ContourOutcomes :
          orientation' = [outcome |-> outcome,
                          rotation |-> detect_orientation(outcome)]
    /\ UNCHANGED <<store, other, cascade, writer, requestVars>>

NextOrientation == DetectOrientation

SpecOrientation == InitOrientation /\ [][NextOrientation]_vars

\* ------------------------------------------- save_puzzle and delete_puzzle
\* Variant: metadata.json is written before features.pkl.
SaveSteps_metadata_first ==
    <<"load", "original", "thumbnail", "extract", "metadata_open",
      "metadata_dump", "features_open", "features_dump", "close">>

\* The statements of save_puzzle that follow os.makedirs, in program
\* order.  Writing a file is two steps: open(path, 'w') creates it, the
\* end of the dump completes it.
SaveSteps ==
    <<"load", "original", "thumbnail", "extract", "features_open",
      "features_dump", "metadata_open", "metadata_dump", "close">>

\* Widths of the images saved step by step; their height is window_size.
SaveWidths == {window_size, window_size + step}

\* What a statement of save_puzzle does to the puzzle directory; "load",
\* "extract" and "close" work in memory.
SaveEffect(d, name, width, height) ==
    LET saved == StoredPuzzle(width, height,
                              [i \in 1..RegionCount(width, height) |-> D1])
    IN  CASE name = "original" -> [d EXCEPT !.original = TRUE]
          [] name = "thumbnail" -> [d EXCEPT !.thumbnail = TRUE]
          [] name = "features_open" -> [d EXCEPT !.features = Partial]
          [] name = "features_dump" -> [d EXCEPT !.features = saved.features]
          [] name = "metadata_open" -> [d EXCEPT !.metadata = Partial]
          [] name = "metadata_dump" -> [d EXCEPT !.metadata = saved.metadata]
          [] OTHER -> d

\* The files of a puzzle directory.
Files(d) ==
    (IF d.original THEN {"original.jpg"} ELSE {})
    \cup (IF d.thumbnail THEN {"thumbnail.jpg"} ELSE {})
    \cup (IF d.features # None THEN {"features.pkl"} ELSE {})
    \cup (IF d.metadata # None THEN {"metadata.json"} ELSE {})

\* os.unlink of one file.
Unlink(d, file) ==
    CASE file = "original.jpg" -> [d EXCEPT !.original = FALSE]
      [] file = "thumbnail.jpg" -> [d EXCEPT !.thumbnail = FALSE]
      [] file = "features.pkl" -> [d EXCEPT !.features = None]
      [] file = "metadata.json" -> [d EXCEPT !.metadata = None]

WriterFree == writer.op \in {"none", "returned"}

\* save_puzzle up to os.makedirs: a fresh uuid and its directory.
SaveBegin ==
    /\ WriterFree
    /\ \E p \in PuzzleIds, width \in SaveWidths :
          /\ ~store[p].dir
          /\ store' = [store EXCEPT ![p].dir = TRUE]
          /\ writer' = [op |-> "save", step |-> 1, puzzle_id |-> p,
                        width |-> width, height |-> window_size]
    /\ UNCHANGED <<other, cascade, orientation, requestVars>>

\* The next statement of save_puzzle runs to its end; after the last one
\* the metadata is returned.
SaveStep ==
    /\ writer.op = "save"
    /\ store' = [store EXCEPT ![writer.puzzle_id] =
                     SaveEffect(@, SaveSteps[writer.step], writer.width,
                                writer.height)]
    /\ writer' = IF writer.step < Len(SaveSteps)
                 THEN [writer EXCEPT !.step = @ + 1]
                 ELSE [op |-> "returned", call |-> "save_puzzle",
                       puzzle_id |-> writer.puzzle_id,
                       result |-> "metadata", raised_at |-> "nothing"]
    /\ UNCHANGED <<other, cascade, orientation, requestVars>>

\* Variant: the except branch re-raises without removing the directory.
SaveFail_keep ==
    /\ writer.op = "save"
    /\ SaveSteps[writer.step] # "close"
    /\ writer' = [op |-> "returned", call |-> "save_puzzle",
                  puzzle_id |-> writer.puzzle_id, result |-> "raised",
                  raised_at |-> SaveSteps[writer.step]]
    /\ UNCHANGED <<store, other, cascade, orientation, requestVars>>

\* The next statement of save_puzzle raises: "except Exception" finds the
\* directory and calls shutil.rmtree.  The statements after the metadata
\* write (logger.info, Image.close) do not raise.
SaveFail ==
    /\ writer.op = "save"
    /\ SaveSteps[writer.step] # "close"
    /\ writer' = [op |-> "rmtree", call |-> "save_puzzle",
                  puzzle_id |-> writer.puzzle_id,
                  raised_at |-> SaveSteps[writer.step]]
    /\ UNCHANGED <<store, other, cascade, orientation, requestVars>>

\* delete_puzzle: False without the directory, else shutil.rmtree.
DeleteBegin ==
    /\ WriterFree
    /\ \E p \in PuzzleIds :
          writer' = IF store[p].dir
                    THEN [op |-> "rmtree", call |-> "delete_puzzle",
                          puzzle_id |-> p, raised_at |-> "nothing"]
                    ELSE [op |-> "returned", call |-> "delete_puzzle",
                          puzzle_id |-> p, result |-> "False",
                          raised_at |-> "nothing"]
    /\ UNCHANGED <<store, other, cascade, orientation, requestVars>>

\* shutil.rmtree removes the files one by one, in directory order.
RmtreeUnlink ==
    /\ writer.op = "rmtree"
    /\ \E file \in Files(store[writer.puzzle_id]) :
          store' = [store EXCEPT ![writer.puzzle_id] = Unlink(@, file)]
    /\ UNCHANGED <<other, cascade, writer, orientation, requestVars>>

\* shutil.rmtree removes the emptied directory; save_puzzle re-raises,
\* delete_puzzle returns True.
RmtreeRmdir ==
    /\ writer.op = "rmtree"
    /\ Files(store[writer.puzzle_id]) = {}
    /\ store' = [store EXCEPT ![writer.puzzle_id] = NoPuzzle]
    /\ writer' = [op |-> "returned", call |-> writer.call,
                  puzzle_id |-> writer.puzzle_id,
                  result |-> IF writer.call = "save_puzzle" THEN "raised"
                             ELSE "True",
                  raised_at |-> writer.raised_at]
    /\ UNCHANGED <<other, cascade, orientation, requestVars>>

NextSave ==
    \/ SaveBegin
    \/ SaveStep
    \/ SaveFail
    \/ RmtreeUnlink
    \/ RmtreeRmdir

SpecSave == InitGrid /\ [][NextSave]_vars

\* analyze_piece for the piece D1 while delete_puzzle calls run.
DeleteAnalyzeBegin == AnalyzeRequest(LocationPieceImages)

NextDelete ==
    \/ DeleteAnalyzeBegin
    \/ AnalyzeQuality
    \/ FindLoad
    \/ FindExtract
    \/ FindMatchRotation
    \/ FindRank
    \/ AnalyzeRespond
    \/ Finish
    \/ DeleteBegin
    \/ RmtreeUnlink
    \/ RmtreeRmdir

SpecDelete == Init /\ [][NextDelete]_vars

\* ------------------------------------------------- degraded descriptors
\* A stored puzzle some regions of which were extracted with failures.
InitDegraded ==
    /\ \E w \in PuzzleWidths, h \in PuzzleHeights :
         \E content \in [1..RegionCount(w, h) -> DegradedRegionDescriptors] :
            store = [p \in PuzzleIds |->
                        IF p = 1 THEN StoredPuzzle(w, h, content)
                        ELSE NoPuzzle]
    /\ Idle
    /\ other = IdleFrame
    /\ cascade = None
    /\ writer = NoWriter
    /\ orientation = None

DegradedCall == FindMatchesRequest(DegradedPieceImages)

NextDegraded ==
    \/ DegradedCall
    \/ FindLoad
    \/ FindExtract
    \/ FindMatchRotation
    \/ FindRank
    \/ DirectReturn
    \/ Finish

SpecDegraded == InitDegraded /\ [][NextDegraded]_vars

\* ------------------------------------------------- two request threads
\* app.run(threaded=True): two requests are served by two threads on the
\* module-level services.  The variables of a request hold the frame of
\* the thread that runs; other holds the frame of the thread that waits.
Frame ==
    [pc |-> pc, caller |-> caller, request |-> request,
     piece_bytes |-> piece_bytes, top_k |-> top_k,
     puzzle_features |-> puzzle_features,
     puzzle_metadata |-> puzzle_metadata,
     piece_features_list |-> piece_features_list,
     done_rotations |-> done_rotations,
     all_matches |-> all_matches, matches |-> matches,
     response |-> response, stage_log |-> stage_log]

\* Variant: all_matches is a field of the shared MatchingService, not a
\* local; a thread switch leaves it where it is.
Switch_shared ==
    /\ other' = Frame
    /\ pc' = other.pc
    /\ caller' = other.caller
    /\ request' = other.request
    /\ piece_bytes' = other.piece_bytes
    /\ top_k' = other.top_k
    /\ puzzle_features' = other.puzzle_features
    /\ puzzle_metadata' = other.puzzle_metadata
    /\ piece_features_list' = other.piece_features_list
    /\ done_rotations' = other.done_rotations
    /\ all_matches' = all_matches
    /\ matches' = other.matches
    /\ response' = other.response
    /\ stage_log' = other.stage_log
    /\ UNCHANGED <<store, cascade, sideVars>>

\* The scheduler lets the other thread run: the frames change places, the
\* store stays.
Switch ==
    /\ other' = Frame
    /\ pc' = other.pc
    /\ caller' = other.caller
    /\ request' = other.request
    /\ piece_bytes' = other.piece_bytes
    /\ top_k' = other.top_k
    /\ puzzle_features' = other.puzzle_features
    /\ puzzle_metadata' = other.puzzle_metadata
    /\ piece_features_list' = other.piece_features_list
    /\ done_rotations' = other.done_rotations
    /\ all_matches' = other.all_matches
    /\ matches' = other.matches
    /\ response' = other.response
    /\ stage_log' = other.stage_log
    /\ UNCHANGED <<store, cascade, sideVars>>

\* The pieces of the two threads' requests.
ConcurrentPieceImages ==
    {[r \in RotationSet |-> D1],
     [r \in RotationSet |-> IF r = 90 THEN D2 ELSE D1]}

\* Two stored puzzles: one of MaxRegions regions and one of a single region.
InitConcurrent ==
    /\ \E content \in [1..MaxRegions -> {D1, D2}] :
          store = [p \in PuzzleIds |->
                      IF p = 1
                      THEN StoredPuzzle(window_size + step * (MaxRegions - 1),
                                        window_size, content)
                      ELSE StoredPuzzle(window_size, window_size, <<D2>>)]
    /\ Idle
    /\ other = IdleFrame
    /\ cascade = None
    /\ writer = NoWriter
    /\ orientation = None

ConcurrentBegin == AnalyzeRequest(ConcurrentPieceImages)

NextConcurrent ==
    \/ ConcurrentBegin
    \/ AnalyzeQuality
    \/ FindLoad
    \/ FindExtract
    \/ FindMatchRotation
    \/ FindRank
    \/ AnalyzeRespond
    \/ Finish
    \/ Switch

SpecConcurrent == InitConcurrent /\ [][NextConcurrent]_vars

\* ------------------------------------------- exceptions in find_matches
\* Variant: the except branch returns the matches collected before the
\* exception.
match_piece_to_puzzle_raising_partial(piece_features, features, metadata, rotation_deg, raise_at) ==
    MatchRegions(<<>>, piece_features,
                 SubSeq(features.regions, 1, raise_at - 1), metadata,
                 rotation_deg)

\* _match_piece_to_puzzle when the iteration for region raise_at raises:
\* "except Exception as e: ... return []".
match_piece_to_puzzle_raising(piece_features, features, metadata, rotation_deg, raise_at) ==
    <<>>

\* The entry of stage_log for an exception: in the loop of one rotation at
\* a region, or in the extraction of the piece (region 0).
RaiseEntry(rotation_deg, i) ==
    [rotation |-> rotation_deg, region |-> i, stage |-> "raise"]

\* _extract_piece_features_all_orientations when the extraction raises at
\* one rotation: the results of the earlier rotations are dropped with
\* "return []".
FindExtractRaise ==
    /\ pc = "extract"
    /\ \E rotation_deg \in RotationSet :
          stage_log' = <<RaiseEntry(rotation_deg, 0)>>
    /\ piece_features_list' = <<>>
    /\ done_rotations' = 0
    /\ all_matches' = <<>>
    /\ pc' = "match"
    /\ UNCHANGED <<store, other, cascade, sideVars, caller, request,
                   piece_bytes, top_k, puzzle_features, puzzle_metadata,
                   matches, response>>

\* One pass of the rotation loop in which the iteration for some region
\* raises, after the regions before it were handled.
FindMatchRotationRaise ==
    /\ pc = "match"
    /\ done_rotations < Len(piece_features_list)
    /\ LET entry == piece_features_list[done_rotations + 1]
       IN  \E raise_at \in 1..Len(puzzle_features.regions) :
             /\ all_matches' = all_matches \o
                    match_piece_to_puzzle_raising(entry[2], puzzle_features,
                                                  puzzle_metadata, entry[1],
                                                  raise_at)
             /\ stage_log' = stage_log \o
                    RotationStages(entry[2],
                                   SubSeq(puzzle_features.regions, 1,
                                          raise_at - 1),
                                   entry[1], 1)
                    \o <<RaiseEntry(entry[1], raise_at)>>
    /\ done_rotations' = done_rotations + 1
    /\ UNCHANGED <<store, other, cascade, sideVars, pc, caller, request,
                   piece_bytes, top_k, puzzle_features, puzzle_metadata,
                   piece_features_list, matches, response>>

FaultCall == FindMatchesRequest(ConcurrentPieceImages)

NextFault ==
    \/ FaultCall
    \/ FindLoad
    \/ FindExtract
    \/ FindExtractRaise
    \/ FindMatchRotation
    \/ FindMatchRotationRaise
    \/ FindRank
    \/ DirectReturn
    \/ Finish

SpecFault == InitConcurrent /\ [][NextFault]_vars

\* ================================================================ claims
Range(seq) == {seq[i] : i \in 1..Len(seq)}

Min(a, b) == IF a < b THEN a ELSE b

\* The candidates handed out: the list find_matches returned and the
\* best_match and alternatives of the response.
Returned ==
    Range(matches) \cup
    (IF response # None /\ response.best_match # None
     THEN {response.best_match} \cup Range(response.alternatives)
     ELSE {})

\* The region of the loaded descriptor set a candidate's location names.
RegionIndex(location) ==
    CHOOSE i \in 1..Len(puzzle_features.regions) :
        /\ puzzle_features.regions[i].x = location.x
        /\ puzzle_features.regions[i].y = location.y

\* The descriptors that occur in some specification.
KnownDescriptors ==
    Descriptors \cup DegradedRegionDescriptors \cup RoundingDescriptors
    \cup {extract_region_features(D1, failed) : failed \in SUBSET Parts}

\* Color similarity and fused confidence of every pair of descriptors.
ColorTable ==
    [a \in KnownDescriptors |-> [b \in KnownDescriptors |->
        compare_color_histograms(a.color_hist, b.color_hist)]]

ConfidenceTable ==
    [a \in KnownDescriptors |-> [b \in KnownDescriptors |->
        WeightedConfidence(
            compare_color_histograms(a.color_hist, b.color_hist),
            compare_shape_features(a.shape, b.shape),
            compare_deep_features(a.deep_features, b.deep_features))]]

DescriptorOf(region) ==
    [color_hist |-> region.color_hist, shape |-> region.shape,
     deep_features |-> region.deep_features]

\* Color similarity and fused confidence of a (rotation, region index) pair
\* of the request being served.
ColorOfPair(r, i) ==
    ColorTable[request.piece[r]][DescriptorOf(puzzle_features.regions[i])]

ConfidenceOfPair(r, i) ==
    ConfidenceTable[request.piece[r]][DescriptorOf(puzzle_features.regions[i])]

AllPairs == RotationSet \X (1..Len(puzzle_features.regions))

\* The pairs that pass the color prefilter and the acceptance gate.
Survives(p) == /\ ColorOfPair(p[1], p[2]) >= 300
               /\ ConfidenceOfPair(p[1], p[2]) >= 40000

SurvivingPairs == {p \in AllPairs : Survives(p)}

\* The (rotation, region index) pair a candidate stands for.
PairOf(m) == <<m.rotation_needed, RegionIndex(m.location)>>

HasBest == response # None /\ response.best_match # None

\* C1: no candidate that find_matches returns, and no best_match or
\* alternative of the response, comes from a (rotation, region) pair whose
\* color similarity is below 0.30.
C1_PrefilterInvariant ==
    \A m \in Returned \cup Range(all_matches) :
        /\ m.rotation_needed \in RotationSet
        /\ ColorOfPair(m.rotation_needed, RegionIndex(m.location)) >= 300

\* C1 witness: a response with a best match for a request in which some pair
\* was kept out by the prefilter alone (its fused confidence is 40 or more).
C1_Witness ==
    /\ pc = "done" /\ HasBest
    /\ \E p \in AllPairs : /\ ColorOfPair(p[1], p[2]) < 300
                           /\ ConfidenceOfPair(p[1], p[2]) >= 40000

\* C2: every returned candidate reports a confidence between 40.0 and 100.0,
\* and the fused confidence of its pair is not below 40.
C2_ConfidenceRange ==
    \A m \in Returned :
        /\ m.confidence >= 400
        /\ m.confidence <= 1000
        /\ m.rotation_needed \in RotationSet
        /\ ConfidenceOfPair(m.rotation_needed, RegionIndex(m.location)) >= 40000

\* C2 witness: find_matches returned candidates although some pair passed
\* the prefilter with a fused confidence below 40.
C2_Witness ==
    /\ pc = "returned" /\ matches # <<>>
    /\ \E p \in AllPairs : /\ ColorOfPair(p[1], p[2]) >= 300
                           /\ ConfidenceOfPair(p[1], p[2]) < 40000

\* C3: the alternatives of the response are empty whenever the confidence of
\* best_match is below 80.
C3_NoAlternativesBelow80 ==
    (HasBest /\ response.best_match.confidence < 800)
        => response.alternatives = <<>>

\* C3 witness: a best match below 80 with other candidates returned.
C3_Witness ==
    /\ HasBest /\ response.best_match.confidence < 800
    /\ Len(matches) > 1
    /\ response.alternatives = <<>>

IsConfident(m) == m.confidence >= 800

C5_Warning ==
    (response # None /\ response.success) =>
        /\ (response.warning = WarningNoMatch) <=> (SurvivingPairs = {})
        /\ (SurvivingPairs = {}) =>
              /\ response.best_match = None
              /\ response.alternatives = <<>>
              /\ response.status = 200
        /\ (response.warning = WarningLowConfidence) <=>
              (response.best_match # None
               /\ response.best_match.confidence < 800)
        /\ (response.warning = WarningNull) <=>
              (response.best_match # None
               /\ response.best_match.confidence >= 800)

\* C5 witness: a success response for a request in which no pair survived,
\* one of them stopped by the acceptance gate.
C5_Witness ==
    /\ response # None /\ response.success
    /\ response.warning = WarningNoMatch
    /\ \E p \in AllPairs : ColorOfPair(p[1], p[2]) >= 300

\* Position of a candidate in discovery order: rotation first, then region.
Precedes(a, b) ==
    \/ a.rotation_needed < b.rotation_needed
    \/ /\ a.rotation_needed = b.rotation_needed
       /\ RegionIndex(a.location) < RegionIndex(b.location)

\* C6: the list find_matches returns is in non-increasing confidence order
\* and candidates of equal confidence are in discovery order (rotation
\* ascending, then region order); the order of any two candidates is thereby
\* fixed by the inputs.
C6_RankedOrder ==
    \A i \in 1..Len(matches) : \A j \in (i + 1)..Len(matches) :
        \/ matches[i].confidence > matches[j].confidence
        \/ /\ matches[i].confidence = matches[j].confidence
           /\ Precedes(matches[i], matches[j])

\* C6 witness: a returned list with a tie inside one rotation, a tie across
\* rotations and a strictly smaller confidence further down.
C6_Witness ==
    /\ pc = "returned"
    /\ \E i, j \in 1..Len(matches) :
          /\ i < j /\ matches[i].confidence = matches[j].confidence
          /\ matches[i].rotation_needed = matches[j].rotation_needed
    /\ \E i, j \in 1..Len(matches) :
          /\ i < j /\ matches[i].confidence = matches[j].confidence
          /\ matches[i].rotation_needed < matches[j].rotation_needed
    /\ \E i, j \in 1..Len(matches) :
          matches[i].confidence > matches[j].confidence

\* find_matches got past the loading of features and metadata and returned.
Ranked == pc \in {"returned", "done"} /\ puzzle_metadata # None

\* C7: with n pooled candidates find_matches returns the first min(top_k, n)
\* entries of the ranked list, no omitted candidate has a higher confidence
\* than a returned one, and a response (top_k = 5) has at most 4
\* alternatives.
C7_TopK ==
    /\ Ranked =>
        LET n == Cardinality(SurvivingPairs)
        IN  /\ Len(all_matches) = n
            /\ Len(matches) = Min(top_k, n)
            /\ matches = SubSeq(all_matches, 1, Min(top_k, n))
            /\ \A i \in 1..Len(matches) : \A j \in (Len(matches) + 1)..n :
                  all_matches[j].confidence <= matches[i].confidence
    /\ HasBest => Len(response.alternatives) <= 4

\* C7 witness: a response built from 5 of more than 5 pooled candidates,
\* with 4 alternatives.
C7_Witness ==
    /\ pc = "done" /\ HasBest
    /\ top_k = 5
    /\ Cardinality(SurvivingPairs) > 5
    /\ Len(response.alternatives) = 4

\* C8: best_match is the first returned match when a candidate survives and
\* null otherwise, and its confidence is not below that of any pooled
\* candidate of any rotation and region.
C8_BestMatch ==
    (response # None /\ response.success) =>
        /\ (SurvivingPairs = {}) <=> (response.best_match = None)
        /\ matches # <<>> => response.best_match = matches[1]
        /\ matches = <<>> => response.best_match = None
        /\ \A p \in SurvivingPairs :
              response.best_match.confidence
                  >= Round1(ConfidenceOfPair(p[1], p[2]))
        /\ \A m \in Range(all_matches) :
              response.best_match.confidence >= m.confidence

\* C8 witness: the best match is not the first pair discovered; a surviving
\* pair of an earlier rotation has a smaller confidence.
C8_Witness ==
    /\ HasBest
    /\ \E p \in SurvivingPairs :
          /\ p[1] < response.best_match.rotation_needed
          /\ Round1(ConfidenceOfPair(p[1], p[2]))
                < response.best_match.confidence

RotationIndex(r) == r \div 90 + 1

PooledPairs == {PairOf(all_matches[i]) : i \in 1..Len(all_matches)}

\* C9: the pool holds exactly the pairs with color similarity >= 0.30 and
\* fused confidence >= 40 of the rotations handled so far, each once; when
\* find_matches ranks, all four rotations have been handled against every
\* region, whatever was found at earlier rotations.
C9_Pooling ==
    LET pooled == PooledPairs
    IN  /\ pc = "match" =>
            /\ \A p \in AllPairs :
                  p \in pooled <=>
                     (RotationIndex(p[1]) <= done_rotations /\ Survives(p))
            /\ Len(all_matches) = Cardinality(pooled)
        /\ Ranked =>
            /\ done_rotations = 4
            /\ \A p \in AllPairs : p \in pooled <=> Survives(p)
            /\ Len(all_matches) = Cardinality(pooled)

\* C9 witness: the pool at ranking time holds two candidates of rotation 0
\* and a candidate of rotation 270.
C9_Witness ==
    /\ pc = "returned" /\ puzzle_metadata # None
    /\ Cardinality({p \in PooledPairs : p[1] = 0}) >= 2
    /\ \E p \in PooledPairs : p[1] = 270

\* C10: rotation_needed of every returned candidate is one of 0, 90, 180,
\* 270 and is the rotation that was applied to the piece to obtain the
\* descriptor whose comparison gave the candidate: the tag of every
\* extracted descriptor is its rotation, and the candidate's confidence is
\* that of the piece turned by rotation_needed against the candidate's
\* region.
C10_RotationNeeded ==
    /\ \A i \in 1..Len(piece_features_list) :
          /\ piece_features_list[i][1] \in RotationSet
          /\ piece_features_list[i][2] = request.piece[piece_features_list[i][1]]
    /\ \A m \in Returned :
          /\ m.rotation_needed \in RotationSet
          /\ Survives(PairOf(m))
          /\ m.confidence = Round1(ConfidenceOfPair(m.rotation_needed,
                                                    RegionIndex(m.location)))

\* C10 witness: a best match needing 90 degrees for a piece whose descriptor
\* at 270 degrees gives another confidence against the same region.
C10_Witness ==
    /\ pc = "done" /\ HasBest
    /\ response.best_match.rotation_needed = 90
    /\ Round1(ConfidenceOfPair(270, RegionIndex(response.best_match.location)))
          # response.best_match.confidence

Saved == store[1] # NoPuzzle

SavedWidth == store[1].metadata.dimensions.width

SavedHeight == store[1].metadata.dimensions.height

SavedRegions == store[1].features.regions

SavedRows == store[1].features.grid_size[1]

SavedCols == store[1].features.grid_size[2]

C13_RegionsInside ==
    Saved =>
        /\ \A i \in 1..Len(SavedRegions) :
              LET region == SavedRegions[i]
              IN  /\ region.width = 100 /\ region.height = 100
                  /\ region.x >= 0 /\ region.y >= 0
                  /\ region.x + region.width <= SavedWidth
                  /\ region.y + region.height <= SavedHeight
                  /\ region.x % 50 = 0 /\ region.y % 50 = 0
        /\ {<<SavedRegions[i].x, SavedRegions[i].y>> :
                i \in 1..Len(SavedRegions)}
             = {<<x, y>> \in (0..SavedWidth) \X (0..SavedHeight) :
                   /\ x % 50 = 0 /\ y % 50 = 0
                   /\ x + 100 <= SavedWidth /\ y + 100 <= SavedHeight}

\* C13 witness: an image with a strip of 25 pixels at the right and at the
\* bottom beyond the last window, and more than one window each way.
C13_Witness ==
    /\ Saved
    /\ SavedWidth % 50 = 25 /\ SavedHeight % 50 = 25
    /\ Len(SavedRegions) >= 4
    /\ SavedRegions[Len(SavedRegions)].x + 100 = SavedWidth - 25
    /\ SavedRegions[Len(SavedRegions)].y + 100 = SavedHeight - 25

\* C14: the regions are in row-major order: the region at index i (from 0)
\* has y = 50 * (i div cols) and x = 50 * (i mod cols); a 300 x 200 image
\* gives cols = 5, rows = 3 and 15 regions, the first at (0, 0) and the
\* last at (200, 100).
C14_RowMajor ==
    Saved =>
        /\ \A i \in 0..(Len(SavedRegions) - 1) :
              /\ SavedRegions[i + 1].y = 50 * (i \div SavedCols)
              /\ SavedRegions[i + 1].x = 50 * (i % SavedCols)
        /\ (SavedWidth = 300 /\ SavedHeight = 200) =>
              /\ SavedCols = 5 /\ SavedRows = 3
              /\ Len(SavedRegions) = 15
              /\ SavedRegions[1].x = 0 /\ SavedRegions[1].y = 0
              /\ SavedRegions[15].x = 200 /\ SavedRegions[15].y = 100

\* C14 witness: the 300 x 200 image has been saved.
C14_Witness ==
    /\ Saved
    /\ SavedWidth = 300 /\ SavedHeight = 200
    /\ Len(SavedRegions) = 15

\* C15: when the store has no descriptor set for the requested puzzle id,
\* find_matches ends with an explicit not-found outcome, distinguishable
\* from the outcome of a request in which no candidate survived (the empty
\* list).
C15_NotFoundExplicit ==
    (pc = "returned" /\ load_puzzle_features(store, request.puzzle_id) = None)
        => matches # <<>>

\* A descriptor with all four sub-vectors of the sample lengths.
WellFormed(d) ==
    /\ Len(d.color_hist) = Len(D1.color_hist)
    /\ Len(d.shape.edge_hist) = Len(D1.shape.edge_hist)
    /\ Len(d.shape.hu_moments) = Len(D1.shape.hu_moments)
    /\ Len(d.deep_features) = Len(D1.deep_features)

IsZero(v) == v # <<>> /\ v = Zeros(Len(v))

\* A descriptor in which a failed sub-extraction left a zero vector.
Degraded(d) ==
    \/ IsZero(d.color_hist)
    \/ IsZero(d.shape.edge_hist)
    \/ IsZero(d.deep_features)

\* C16: when sub-descriptor extractions fail, zero vectors of full length
\* stand in and the match continues: find_matches compares all four
\* rotations with every region, pools exactly the surviving pairs and
\* returns them ranked and cut to top_k; it never returns early.
C16_DegradedContinues ==
    /\ \A i \in 1..Len(piece_features_list) :
          WellFormed(piece_features_list[i][2])
    /\ Ranked =>
          LET pooled == PooledPairs
              n == Cardinality(SurvivingPairs)
          IN  /\ \A i \in 1..Len(puzzle_features.regions) :
                    WellFormed(puzzle_features.regions[i])
              /\ done_rotations = 4
              /\ \A p \in AllPairs :
                    /\ [rotation |-> p[1], region |-> p[2], stage |-> "color"]
                          \in Range(stage_log)
                    /\ p \in pooled <=> Survives(p)
              /\ Len(all_matches) = n
              /\ matches = SubSeq(all_matches, 1, Min(top_k, n))
              /\ \A i \in 1..(Len(all_matches) - 1) :
                    all_matches[i].confidence >= all_matches[i + 1].confidence

\* C16 witness: find_matches returned candidates for a piece one rotation
\* of which has a zero color histogram and a zero embedding, against a
\* puzzle with a degraded region; a candidate comes from the degraded
\* rotation and one from the degraded region.
C16_Witness ==
    /\ pc = "returned" /\ puzzle_metadata # None
    /\ \E m \in Range(matches) :
          /\ IsZero(request.piece[m.rotation_needed].color_hist)
          /\ IsZero(request.piece[m.rotation_needed].deep_features)
    /\ \E m \in Range(matches) :
          Degraded(puzzle_features.regions[RegionIndex(m.location)])

\* The candidates of the rotations from index i on, in discovery order.
RECURSIVE PoolFrom(_, _, _, _)
PoolFrom(entries, features, metadata, i) ==
    IF i > Len(entries) THEN <<>>
    ELSE match_piece_to_puzzle(entries[i][2], features, metadata, entries[i][1])
         \o PoolFrom(entries, features, metadata, i + 1)

\* What find_matches returns for a piece, a puzzle id and a top_k when it
\* runs from beginning to end against the store st.
find_matches(st, piece, puzzle_id, k) ==
    LET features == load_puzzle_features(st, puzzle_id)
        metadata == get_puzzle(st, puzzle_id)
    IN  IF features = None \/ metadata = None THEN <<>>
        ELSE Slice(SortByConfidence(
                     PoolFrom(extract_piece_features_all_orientations(piece),
                              features, metadata, 1)), k)

ResultAlone(f) ==
    /\ f.pc \in {"returned", "done"} /\ f.puzzle_metadata # None =>
          f.matches = find_matches(store, f.request.piece,
                                   f.request.puzzle_id, f.top_k)
    /\ (f.pc = "done" /\ f.response.success) =>
          f.response = PrepareResponse(
                          find_matches(store, f.request.piece,
                                       f.request.puzzle_id, f.top_k))

\* C18: for any interleaving of two find_matches calls, against the same
\* puzzle or different ones, each call returns the result it returns when
\* it runs alone.
C18_Independent == ResultAlone(Frame) /\ ResultAlone(other)

\* C18 witness: both calls are in the middle of their rotation loops, on
\* the same puzzle with different pieces, each with candidates pooled.
C18_Witness ==
    /\ pc = "match" /\ other.pc = "match"
    /\ done_rotations \in 1..3 /\ other.done_rotations \in 1..3
    /\ request.puzzle_id = other.request.puzzle_id
    /\ request.piece # other.request.piece
    /\ all_matches # <<>> /\ other.all_matches # <<>>

\* The stages logged for the pair (rotation r, region i), in log order.
StagesOfPair(r, i) ==
    LET OfPair(e) == e.rotation = r /\ e.region = i
        entries == SelectSeq(stage_log, OfPair)
    IN  [k \in 1..Len(entries) |-> entries[k].stage]

\* The pairs whose rotation the loop of find_matches has been through.
HandledPairs == {p \in AllPairs : RotationIndex(p[1]) <= done_rotations}

\* C19: for every (rotation, region) pair the cascade runs the color,
\* shape and embedding comparisons in that order; when the color
\* similarity is below 0.30 the pair is rejected at once: the shape and
\* embedding comparisons are not executed for it and no candidate is
\* emitted.
C19_CascadeOrder ==
    (pc \in {"match", "returned", "done"} /\ puzzle_metadata # None) =>
        LET pooled == PooledPairs
        IN  \A p \in HandledPairs :
               IF ColorOfPair(p[1], p[2]) < 300
               THEN /\ StagesOfPair(p[1], p[2]) = <<"color">>
                    /\ p \notin pooled
               ELSE StagesOfPair(p[1], p[2]) = <<"color", "shape", "deep">>

\* C19 witness: a finished loop in which one pair was rejected after its
\* color comparison alone, although its fused confidence would have been
\* 40 or more, and another pair went through the three stages and was
\* emitted.
C19_Witness ==
    /\ pc = "returned" /\ puzzle_metadata # None
    /\ \E p \in AllPairs :
          /\ ColorOfPair(p[1], p[2]) < 300
          /\ ConfidenceOfPair(p[1], p[2]) >= 40000
          /\ StagesOfPair(p[1], p[2]) = <<"color">>
    /\ \E p \in PooledPairs :
          StagesOfPair(p[1], p[2]) = <<"color", "shape", "deep">>

\* A sub-vector that is absent or all zeros.
Degenerate(v) == v = <<>> \/ IsZero(v)

\* C20: in the shape stage, when the edge histogram of either side is
\* absent or degenerate the edge sub-similarity is 0.5, when the Hu moments
\* of either side are absent or degenerate the Hu sub-similarity is 0.5,
\* and the shape similarity is the mean of the two, within [0, 1] (0.5 when
\* both are substituted).
C20_ShapeNeutralPrior ==
    (pc \in {"match", "returned", "done"} /\ puzzle_metadata # None) =>
        \A p \in HandledPairs :
            LET shape1 == request.piece[p[1]].shape
                shape2 == puzzle_features.regions[p[2]].shape
                edge == edge_similarity(shape1, shape2)
                hu == hu_similarity(shape1, shape2)
                similarity == compare_shape_features(shape1, shape2)
            IN  "shape" \in Range(StagesOfPair(p[1], p[2])) =>
                  /\ (Degenerate(shape1.edge_hist)
                        \/ Degenerate(shape2.edge_hist)) => edge = 500
                  /\ (Degenerate(shape1.hu_moments)
                        \/ Degenerate(shape2.hu_moments)) => hu = 500
                  /\ similarity = (edge + hu) \div 2
                  /\ similarity >= 0 /\ similarity <= 1000

\* The bands of an axis: 1 below 33 %, 2 from 33 % to below 67 %, 3 from 67 %.
InBand(b, v, size) ==
    CASE b = 1 -> v * 100 < size * 33
      [] b = 2 -> size * 33 <= v * 100 /\ v * 100 < size * 67
      [] b = 3 -> size * 67 <= v * 100

\* The rule table, rows upper / middle / lower, columns left / center / right.
PhraseTable ==
    << <<"Upper-left quadrant", "Upper area", "Upper-right quadrant">>,
       <<"Left side", "Center area", "Right side">>,
       <<"Lower-left quadrant", "Lower area", "Lower-right quadrant">> >>

Bands == (1..3) \X (1..3)

\* The <<column, row>> band pairs the corner of a candidate falls in.
BandsOf(m, metadata) ==
    {hv \in Bands :
        /\ InBand(hv[1], m.location.x, metadata.dimensions.width)
        /\ InBand(hv[2], m.location.y, metadata.dimensions.height)}

ClauseTable ==
    [r \in RotationSet |->
        CASE r = 0 -> ""
          [] r = 90 -> ", rotated 90° clockwise"
          [] r = 180 -> ", rotated 180°"
          [] r = 270 -> ", rotated 90° counter-clockwise"]

Clauses == {ClauseTable[r] : r \in RotationSet}

\* The candidates built so far by the find_matches in progress.
Built == Range(all_matches)

\* C21: the description classifies x as left below 33 % of the puzzle
\* width, center from 33 % to below 67 %, right otherwise, and y as upper /
\* middle / lower at the same thresholds of the height, and its phrase is
\* the entry of the rule table for the two classes; exactly one phrase
\* applies to every (x, y).
C21_LocationPhrase ==
    puzzle_metadata # None =>
        \A m \in Built :
            LET bands == BandsOf(m, puzzle_metadata)
            IN  /\ Cardinality(bands) = 1
                /\ \E hv \in bands, c \in Clauses :
                      m.description = PhraseTable[hv[2]][hv[1]] \o c

\* Regions of all nine classes have been described.
C21_Witness ==
    /\ pc = "returned"
    /\ puzzle_metadata # None
    /\ \A hv \in Bands :
          \E m \in Built :
             /\ BandsOf(m, puzzle_metadata) = {hv}
             /\ m.description = PhraseTable[hv[2]][hv[1]]

Phrases == {PhraseTable[hv[2]][hv[1]] : hv \in Bands}

\* C22: the rotation clause of a description is empty for rotation 0,
\* "rotated 90° clockwise" for 90, "rotated 180°" for 180 and "rotated 90°
\* counter-clockwise" for 270: the description of a candidate agrees with
\* its rotation_needed field.
C22_RotationClause ==
    \A m \in Built \cup Returned :
        /\ m.rotation_needed \in RotationSet
        /\ \E p \in Phrases :
              m.description = p \o ClauseTable[m.rotation_needed]

\* A returned list with candidates of all four rotations.
C22_Witness ==
    /\ pc = "done"
    /\ \A r \in RotationSet :
          \E i \in 1..Len(matches) :
             /\ matches[i].rotation_needed = r
             /\ \E p \in Phrases :
                   matches[i].description = p \o ClauseTable[r]

\* The phrases of the right column and of the lower row of the rule table.
RightPhrases == {PhraseTable[v][3] : v \in 1..3}

LowerPhrases == {PhraseTable[3][h] : h \in 1..3}

\* The description of m is one of the phrases, with any rotation clause.
DescribedAs(m, phrases) ==
    \E p \in phrases, c \in Clauses : m.description = p \o c

\* The matching loop has gone over the regions at least once.
RegionsDescribed ==
    \/ pc = "match" /\ done_rotations >= 1
    \/ pc = "returned" /\ puzzle_metadata # None
    \/ pc = "done" /\ puzzle_metadata # None

\* C30: the description is computed from the top-left corner of the
\* region, and every generated region has x <= width - 100 and
\* y <= height - 100; hence for a width of at most 303 no region is
\* classified "right", for a height of at most 303 none is classified
\* "lower", and a region classified "left" and "upper" exists for every
\* puzzle with at least one region.
C30_CornerClassification ==
    puzzle_metadata # None =>
        LET width == puzzle_metadata.dimensions.width
            height == puzzle_metadata.dimensions.height
            regions == puzzle_features.regions
        IN  /\ \A i \in 1..Len(regions) :
                  /\ regions[i].x <= width - 100
                  /\ regions[i].y <= height - 100
            /\ \A m \in Built :
                  /\ \E i \in 1..Len(regions) :
                        /\ m.location.x = regions[i].x
                        /\ m.location.y = regions[i].y
                  /\ width <= 303 => ~DescribedAs(m, RightPhrases)
                  /\ height <= 303 => ~DescribedAs(m, LowerPhrases)
            /\ (RegionsDescribed /\ regions # <<>>) =>
                  \E m \in Built : DescribedAs(m, {PhraseTable[1][1]})

\* A 300 x 300 puzzle: the region at (200, 200), whose centre lies in the
\* right and lower thirds, is described as the center area.
C30_Witness ==
    /\ pc = "returned"
    /\ puzzle_metadata # None
    /\ puzzle_metadata.dimensions = [width |-> 300, height |-> 300]
    /\ \E m \in Built :
          /\ m.location.x = 200
          /\ m.location.y = 200
          /\ m.description = "Center area"
    /\ \E m \in Built : m.description = "Upper-left quadrant"

\* C23: on every path through analyze_piece after the piece buffer has been
\* created, the buffer is closed before the response is returned, and an
\* exception ends in the JSON 500 'Failed to analyze piece' response.
C23_BufferCleanup ==
    (pc = "done" /\ caller = "route" /\ piece_bytes # "unset") =>
        /\ piece_bytes = "deleted"
        /\ response.status = 500 =>
              response = ErrorResponse(500, "Failed to analyze piece")

\* C24: detect_orientation returns, for every contour angle, a rotation
\* that is one of 0, 90, 180, 270 degrees, and 0 when no contour is found
\* or on error.
C24_OrientationQuarterTurn ==
    orientation # None =>
        /\ orientation.rotation \in {0, 90, 180, 270}
        /\ orientation.outcome.kind \in {"no_contour", "error"} =>
              orientation.rotation = 0

\* The unrounded fused confidence of the pair a candidate stands for.
Unrounded(m) == ConfidenceOfPair(PairOf(m)[1], PairOf(m)[2])

\* C25: the 40 acceptance gate is evaluated on the unrounded fused
\* confidence, while sorting, the 80 alternatives gate and the
\* low-confidence warning are evaluated on the confidence rounded to one
\* decimal: the best candidate is reported without a low-confidence warning
\* exactly when its rounded confidence is >= 80, and candidates whose
\* unrounded confidences round to the same value are in discovery order.
C25_RoundedGates ==
    Ranked =>
        /\ \A p \in AllPairs :
              (\E m \in Built : PairOf(m) = p) <=>
                  (ColorOfPair(p[1], p[2]) >= 300
                   /\ ConfidenceOfPair(p[1], p[2]) >= 40000)
        /\ \A m \in Built \cup Returned :
              m.confidence = Round1(Unrounded(m))
        /\ \A i \in 1..Len(matches) : \A j \in (i + 1)..Len(matches) :
              \/ Round1(Unrounded(matches[i])) > Round1(Unrounded(matches[j]))
              \/ /\ Round1(Unrounded(matches[i])) = Round1(Unrounded(matches[j]))
                 /\ Precedes(matches[i], matches[j])
        /\ HasBest =>
              /\ (response.warning = WarningNull) <=>
                     (Round1(Unrounded(response.best_match)) >= 800)
              /\ (response.warning = WarningLowConfidence) <=>
                     (Round1(Unrounded(response.best_match)) < 800)
              /\ \A i \in 2..Len(matches) :
                     (matches[i] \in Range(response.alternatives)) <=>
                        (/\ Round1(Unrounded(response.best_match)) >= 800
                         /\ Round1(Unrounded(matches[i])) >= 800)

\* A response whose best candidate has an unrounded confidence below 80
\* and no warning, with an alternative of higher unrounded confidence
\* behind it, for a puzzle one region of which rounds to 40.0 and was
\* not accepted.
C25_Witness ==
    /\ pc = "done"
    /\ HasBest
    /\ Unrounded(response.best_match) >= 79950
    /\ Unrounded(response.best_match) < 80000
    /\ response.warning = WarningNull
    /\ \E a \in Range(response.alternatives) :
          Unrounded(a) > Unrounded(response.best_match)
    /\ \E p \in AllPairs :
          /\ ConfidenceOfPair(p[1], p[2]) < 40000
          /\ Round1(ConfidenceOfPair(p[1], p[2])) = 400
          /\ \A m \in Built : PairOf(m) # p

\* The response analyze_piece gives for the piece of the request against
\* the descriptor set and metadata that find_matches loaded.
ResponseWhenPresent ==
    PrepareResponse(
        Slice(SortByConfidence(
                PoolFrom(extract_piece_features_all_orientations(request.piece),
                         puzzle_features, puzzle_metadata, 1)),
              DefaultTopK))

\* C26: for any interleaving of analyze_piece with delete_puzzle on the
\* same puzzle id, the response is the 404 'Puzzle not found' error or the
\* result the request gives with the puzzle fully present (a 400 rejection
\* of the upload or the response for the complete descriptor set); a
\* deletion after the existence check never becomes a success response
\* reporting no confident match.
C26_DeleteInterleaving ==
    (pc = "done" /\ caller = "route") =>
        \/ response = ErrorResponse(404, "Puzzle not found")
        \/ response.status = 400
        \/ /\ puzzle_features # None
           /\ puzzle_metadata # None
           /\ response = ResponseWhenPresent

\* A puzzle that get_puzzle or list_puzzles reports.
Reported(p) == get_puzzle(store, p) # None \/ p \in list_puzzles(store)

\* C27: save_puzzle writes metadata.json last, after original.jpg,
\* thumbnail.jpg and features.pkl: in every state reachable while saves
\* run, a puzzle that get_puzzle or list_puzzles reports has its features
\* file fully written, load_puzzle_features does not return None for it,
\* and its region_count is the number of stored regions.
C27_MetadataLast ==
    \A p \in PuzzleIds :
        Reported(p) =>
            /\ store[p].original
            /\ store[p].thumbnail
            /\ store[p].features # Partial
            /\ load_puzzle_features(store, p) # None
            /\ get_puzzle(store, p).region_count =
                   Len(load_puzzle_features(store, p).regions)

\* A save that has written features.pkl and is writing metadata.json, not
\* yet reported, next to a puzzle that is reported.
C27_Witness ==
    /\ writer.op = "save"
    /\ store[writer.puzzle_id].metadata = Partial
    /\ load_puzzle_features(store, writer.puzzle_id) # None
    /\ ~Reported(writer.puzzle_id)
    /\ \E p \in PuzzleIds : Reported(p) /\ get_puzzle(store, p).region_count = 2

\* C28: when save_puzzle fails at a step after the puzzle directory was
\* created, the whole directory is removed and the exception is re-raised:
\* the puzzles visible through get_puzzle and list_puzzles are the same as
\* before the call and no partial puzzle is left behind.
C28_FailedSaveRemoved ==
    [][/\ (writer.op = "rmtree" /\ writer.call = "save_puzzle") =>
             /\ ~Reported(writer.puzzle_id)
             /\ \A q \in PuzzleIds \ {writer.puzzle_id} : store'[q] = store[q]
             /\ list_puzzles(store') = list_puzzles(store)
             /\ \A q \in PuzzleIds :
                   get_puzzle(store', q) = get_puzzle(store, q)
             /\ writer'.op \in {"rmtree", "returned"}
       /\ (/\ writer.op \in {"save", "rmtree"}
           /\ writer'.op = "returned"
           /\ writer'.call = "save_puzzle"
           /\ writer'.result = "raised") =>
             /\ store'[writer.puzzle_id] = NoPuzzle
             /\ list_puzzles(store') = list_puzzles(store)
             /\ \A q \in PuzzleIds \ {writer.puzzle_id} : store'[q] = store[q]
      ]_vars

\* A save that failed in the metadata write has returned: its directory is
\* gone and the puzzle saved before it is still reported.
C28_Witness ==
    /\ writer.op = "returned"
    /\ writer.call = "save_puzzle"
    /\ writer.result = "raised"
    /\ writer.raised_at = "metadata_dump"
    /\ store[writer.puzzle_id] = NoPuzzle
    /\ \E p \in PuzzleIds : Reported(p)

\* The rotations whose region loop raised, and whether the extraction of
\* the piece raised.
RaisedRotations ==
    {e.rotation : e \in {f \in Range(stage_log) :
                            f.stage = "raise" /\ f.region > 0}}

ExtractionRaised ==
    \E e \in Range(stage_log) : e.stage = "raise" /\ e.region = 0

\* The candidates of the rotations whose loop did not raise, pooled in
\* rotation order.
RECURSIVE PoolSkipping(_, _)
PoolSkipping(entries, i) ==
    IF i > Len(entries) THEN <<>>
    ELSE (IF entries[i][1] \in RaisedRotations THEN <<>>
          ELSE match_piece_to_puzzle(entries[i][2], puzzle_features,
                                     puzzle_metadata, entries[i][1]))
         \o PoolSkipping(entries, i + 1)

\* C29: an exception while comparing some region for one rotation makes
\* that rotation contribute nothing, also not the candidates accepted
\* before the exception, while the candidates of the other rotations are
\* pooled and find_matches returns normally; an exception while extracting
\* the piece descriptor for one rotation discards the descriptors of all
\* four rotations and find_matches returns an empty list.
C29_ExceptionsInMatching ==
    Ranked =>
        /\ ExtractionRaised =>
              /\ piece_features_list = <<>>
              /\ matches = <<>>
        /\ ~ExtractionRaised =>
              /\ \A m \in Built : m.rotation_needed \notin RaisedRotations
              /\ matches =
                    Slice(SortByConfidence(
                            PoolSkipping(
                              extract_piece_features_all_orientations(
                                  request.piece), 1)),
                          top_k)

\* A returned list with candidates of some rotation, while the loop of
\* another rotation raised at the second region after the first region
\* had passed both gates.
C29_Witness ==
    /\ pc = "returned"
    /\ puzzle_metadata # None
    /\ ~ExtractionRaised
    /\ matches # <<>>
    /\ \E e \in Range(stage_log) :
          /\ e.stage = "raise"
          /\ e.region = 2
          /\ Survives(<<e.rotation, 1>>)
          /\ \A m \in Built : m.rotation_needed # e.rotation

====
